---- MODULE Spec2Model ----
(***************************************************************************)
(* State-machine model of src/ex1.py, the Streamlit sales dashboard:       *)
(* carregar_dados (cleaning and feature pipeline), the sidebar filter      *)
(* parameters, the filter df_filtrado, the empty-view guard and the        *)
(* aggregations criar_metricas_kpi, criar_grafico_dia_semana,              *)
(* criar_heatmap_vendas, criar_grafico_top_produtos and                    *)
(* criar_grafico_vendas_pais.                                              *)
(*                                                                         *)
(* Conventions.  Money is counted in whole units, so UnitPrice and Total   *)
(* are integers and floating-point rounding is outside the model.  A date  *)
(* is a day number counted from a Monday, so day_name is computed from it. *)
(* A pandas missing value is written NaN; a float that may be NaN is a     *)
(* cell [nan, v]; a mean is the pair [num, den] of the sum and the count   *)
(* it divides, and 0/0 is the NaN pandas returns for the mean of nothing.  *)
(* A Python name that is not bound yet holds Unbound.                      *)
(*                                                                         *)
(* carregar_dados is decorated with st.cache_data: the server process      *)
(* keeps one cache entry per argument, here the one path the script        *)
(* passes, shared by every run of the script and by every session.         *)
(***************************************************************************)
EXTENDS Integers, Sequences, FiniteSets, TLC

VARIABLES
    source,          \* the Excel file at caminho_completo_ficheiro
    pc,              \* position of the script run
    df,              \* the Record Store returned by carregar_dados
    st_error,        \* message shown by st.error
    st_warning,      \* TRUE once st.warning showed the no-data message
    filtros,         \* the values the sidebar widgets returned
    df_filtrado,     \* the filtered view
    metricas,        \* criar_metricas_kpi(df_filtrado)
    vendas_dia,      \* the table of criar_grafico_dia_semana
    heatmap_pivot,   \* the table of criar_heatmap_vendas
    top_produtos,    \* the series of criar_grafico_top_produtos
    vendas_pais,     \* the series of criar_grafico_vendas_pais
    dist,            \* the data handed to the two histograms
    csv,             \* the export df_filtrado.to_csv
    cache,           \* the st.cache_data entry of carregar_dados for the path
    lock,            \* who holds the entry's compute lock
    body_runs,       \* times the body of carregar_dados was entered
    builds,          \* times the body of carregar_dados returned a store
    passes,          \* runs of the script started in this session
    pc_other,        \* position of a second session's call of carregar_dados
    df_other         \* the store that call returned

vars == <<source, pc, df, st_error, st_warning, filtros, df_filtrado, metricas,
          vendas_dia, heatmap_pivot, top_produtos, vendas_pais, dist, csv,
          cache, lock, body_runs, builds, passes, pc_other, df_other>>

server == <<cache, lock, body_runs, builds, passes, pc_other, df_other>>

aggs == <<metricas, vendas_dia, heatmap_pivot, top_produtos, vendas_pais, dist, csv>>

----------------------------------------------------------------------------
(* Values *)

Unbound == <<>>
Bound(v) == <<v>>
IsBound(x) == Len(x) = 1
Val(x) == x[1]

NaN == "NaN"

Num(v) == [nan |-> FALSE, v |-> v]
NaNCell == [nan |-> TRUE, v |-> 0]

Min(a, b) == IF a <= b THEN a ELSE b

Range(s) == {s[i] : i \in DOMAIN s}

RECURSIVE SumSeq(_)
SumSeq(s) == IF s = <<>> THEN 0 ELSE s[1] + SumSeq(Tail(s))

Column(rows, col) == [i \in 1..Len(rows) |-> rows[i][col]]

\* Series.mean(): the sum over the count; the mean of nothing is 0/0 = NaN
mean(s) == [num |-> SumSeq(s), den |-> Len(s)]

IsNaNMean(m) == m.den = 0

\* Series.nunique(): the number of distinct values (the columns it is used on
\* hold no missing value)
nunique(s) == Cardinality(Range(s))

\* the ascending sequence of a set of integers: the order pivot gives the columns
RECURSIVE SortedInts(_)
SortedInts(S) ==
    IF S = {} THEN <<>>
    ELSE LET m == CHOOSE x \in S : \A y \in S : x <= y
         IN <<m>> \o SortedInts(S \ {m})

----------------------------------------------------------------------------
(* The calendar *)

ordem_dias == <<"Monday", "Tuesday", "Wednesday", "Thursday", "Friday",
                "Saturday", "Sunday">>

\* Series.dt.day_name() of a day number counted from a Monday
day_name(d) == ordem_dias[(d % 7) + 1]

----------------------------------------------------------------------------
(* carregar_dados *)

\* nrows of pd.read_excel
nrows == 541910

\* a cell of the CustomerID column: empty, a number, or text
NullId == [kind |-> "null", val |-> 0]
NumId(n) == [kind |-> "num", val |-> n]
TextId == [kind |-> "text", val |-> 0]

\* a cell of the InvoiceDate column: a timestamp, or text that is no date
Stamp(d, h) == [ok |-> TRUE, day |-> d, hour |-> h]
BadStamp == [ok |-> FALSE, day |-> 0, hour |-> 0]

\* pd.read_excel(..., nrows=541910): the first nrows rows of the sheet
read_excel(src) == SubSeq(src.rows, 1, Min(Len(src.rows), nrows))

\* df.dropna(subset=['CustomerID', 'Description'])
dropna(rows) ==
    SelectSeq(rows, LAMBDA r : r.CustomerID.kind # "null" /\ r.Description # NaN)

\* positive_quantity keeping the rows of quantity zero
positive_quantity_or_zero(rows) == SelectSeq(rows, LAMBDA r : r.Quantity >= 0)

\* df[df['Quantity'] > 0]
positive_quantity(rows) == SelectSeq(rows, LAMBDA r : r.Quantity > 0)

\* df[df['UnitPrice'] > 0]
positive_price(rows) == SelectSeq(rows, LAMBDA r : r.UnitPrice > 0)

\* to_datetime with errors="coerce": it never raises
to_datetime_coerces(rows) == FALSE

\* pd.to_datetime(df["InvoiceDate"]) raises when a value is no date
to_datetime_raises(rows) == \E i \in DOMAIN rows : ~rows[i].InvoiceDate.ok

\* df["CustomerID"].astype(int) raises when a value is no number
astype_int_raises(rows) == \E i \in DOMAIN rows : rows[i].CustomerID.kind # "num"

\* the feature engineering of one row, after the two conversions
features(r) ==
    [InvoiceNo   |-> r.InvoiceNo,
     StockCode   |-> r.StockCode,
     Description |-> r.Description,
     Quantity    |-> r.Quantity,
     InvoiceDate |-> r.InvoiceDate,
     UnitPrice   |-> r.UnitPrice,
     CustomerID  |-> r.CustomerID.val,
     Country     |-> r.Country,
     Total       |-> r.Quantity * r.UnitPrice,
     Hour        |-> r.InvoiceDate.hour,
     DayOfWeek   |-> day_name(r.InvoiceDate.day),
     Date        |-> r.InvoiceDate.day]

\* the body of carregar_dados: what it returns or which handler it ends in
carregar_dados(src) ==
    IF ~src.exists
    THEN [ok |-> FALSE, error |-> "Ficheiro nao encontrado", rows |-> <<>>]
    ELSE LET limpo == positive_price(positive_quantity(dropna(read_excel(src))))
         IN IF to_datetime_raises(limpo) \/ astype_int_raises(limpo)
            THEN [ok |-> FALSE, error |-> "Erro ao carregar dados", rows |-> <<>>]
            ELSE [ok |-> TRUE, error |-> "",
                  rows |-> [i \in 1..Len(limpo) |-> features(limpo[i])]]

----------------------------------------------------------------------------
(* The sidebar and the filter *)

\* df["InvoiceDate"].min().date() and df["InvoiceDate"].max().date()
data_min(rows) == CHOOSE d \in Range(Column(rows, "Date")) :
                     \A e \in Range(Column(rows, "Date")) : d <= e
data_max(rows) == CHOOSE d \in Range(Column(rows, "Date")) :
                     \A e \in Range(Column(rows, "Date")) : d >= e

\* sorted(df["Country"].unique()), the options of the country multiselect
todos_paises(rows) == {rows[i].Country : i \in 1..Len(rows)}

\* sorted(df["Description"].unique()), the options of the product multiselect,
\* read by the filter only through isin
produtos_unicos(rows) == {rows[i].Description : i \in 1..Len(rows)}

\* float(df["Total"].min()) and int(df["Quantity"].min())
valor_min(rows) == CHOOSE d \in Range(Column(rows, "Total")) :
                      \A e \in Range(Column(rows, "Total")) : d <= e
quantidade_min(rows) == CHOOSE d \in Range(Column(rows, "Quantity")) :
                           \A e \in Range(Column(rows, "Quantity")) : d <= e

\* the upper ends of the two sliders' default values
valor_default == 1000
quantidade_default == 50

\* produtos_selecionados with an empty selection read as no filter
produtos_selecionados_or_all(rows, filtrar_produtos, escolha) ==
    IF filtrar_produtos /\ escolha # {} THEN escolha ELSE produtos_unicos(rows)

\* the if/else on the checkbox filtrar_produtos; escolha is the value of the
\* multiselect, which is shown only when the checkbox is on
produtos_selecionados(rows, filtrar_produtos, escolha) ==
    IF filtrar_produtos THEN escolha ELSE produtos_unicos(rows)

\* mascara with the two date bounds joined by or
mascara_either_date(r, f) ==
    /\ (r.Date >= f.data_inicio \/ r.Date <= f.data_fim)
    /\ r.Country \in f.paises_selecionados
    /\ r.Description \in f.produtos_selecionados
    /\ r.Total >= f.range_valores[1]
    /\ r.Total <= f.range_valores[2]
    /\ r.Quantity >= f.range_quantidade[1]
    /\ r.Quantity <= f.range_quantidade[2]

\* mascara with the upper bound of the line total exclusive
mascara_exclusive(r, f) ==
    /\ r.Date >= f.data_inicio
    /\ r.Date <= f.data_fim
    /\ r.Country \in f.paises_selecionados
    /\ r.Description \in f.produtos_selecionados
    /\ r.Total >= f.range_valores[1]
    /\ r.Total < f.range_valores[2]
    /\ r.Quantity >= f.range_quantidade[1]
    /\ r.Quantity <= f.range_quantidade[2]

\* the boolean mask of df_filtrado for one record
mascara(r, f) ==
    /\ r.Date >= f.data_inicio
    /\ r.Date <= f.data_fim
    /\ r.Country \in f.paises_selecionados
    /\ r.Description \in f.produtos_selecionados
    /\ r.Total >= f.range_valores[1]
    /\ r.Total <= f.range_valores[2]
    /\ r.Quantity >= f.range_quantidade[1]
    /\ r.Quantity <= f.range_quantidade[2]

\* df[mask]
filtrar(rows, f) == SelectSeq(rows, LAMBDA r : mascara(r, f))

\* df_filtrado.empty
empty(rows) == Len(rows) = 0

----------------------------------------------------------------------------
(* The aggregations *)

\* df.groupby(col)["Total"].sum(): one row per distinct key; the order of the
\* index is fixed by the sort, reindex or pivot that follows every use
groupby_sum(rows, col) ==
    {[key |-> k,
      Total |-> SumSeq(Column(SelectSeq(rows, LAMBDA r : r[col] = k), "Total"))] :
        k \in {rows[i][col] : i \in 1..Len(rows)}}

RECURSIVE SumTotals(_)
SumTotals(S) ==
    IF S = {} THEN 0
    ELSE LET g == CHOOSE x \in S : TRUE IN g.Total + SumTotals(S \ {g})

\* ticket_medio as the mean of the line totals
ticket_medio_per_line(rows) == mean(Column(rows, "Total"))

\* df.groupby("InvoiceNo")["Total"].sum().mean()
ticket_medio(rows) ==
    LET por_fatura == groupby_sum(rows, "InvoiceNo")
    IN [num |-> SumTotals(por_fatura), den |-> Cardinality(por_fatura)]

criar_metricas_kpi(rows) ==
    [total_vendas     |-> SumSeq(Column(rows, "Total")),
     media_transacao  |-> mean(Column(rows, "Total")),
     total_faturas    |-> nunique(Column(rows, "InvoiceNo")),
     total_clientes   |-> nunique(Column(rows, "CustomerID")),
     total_produtos   |-> nunique(Column(rows, "StockCode")),
     total_paises     |-> nunique(Column(rows, "Country")),
     quantidade_total |-> SumSeq(Column(rows, "Quantity")),
     ticket_medio     |-> ticket_medio(rows)]

\* Series.reindex(index): the value of each label of index, NaN where the
\* series has no such label
reindex(series, index) ==
    [i \in 1..Len(index) |->
        [key |-> index[i],
         Total |-> IF \E g \in series : g.key = index[i]
                   THEN Num((CHOOSE g \in series : g.key = index[i]).Total)
                   ELSE NaNCell]]

\* df.groupby("DayOfWeek")["Total"].sum().reindex(ordem_dias).reset_index()
criar_grafico_dia_semana(rows) == reindex(groupby_sum(rows, "DayOfWeek"), ordem_dias)

\* groupby(["DayOfWeek", "Hour"]).sum(), pivot(index, columns), reindex(ordem_dias):
\* a column per hour present, a row per day of ordem_dias, NaN where no group is
criar_heatmap_vendas(rows) ==
    LET heatmap_data ==
            {[DayOfWeek |-> k[1], Hour |-> k[2],
              Total |-> SumSeq(Column(SelectSeq(rows,
                           LAMBDA r : r.DayOfWeek = k[1] /\ r.Hour = k[2]), "Total"))] :
                k \in {<<rows[i].DayOfWeek, rows[i].Hour>> : i \in 1..Len(rows)}}
        columns == SortedInts({g.Hour : g \in heatmap_data})
        cell(d, h) ==
            IF \E g \in heatmap_data : g.DayOfWeek = d /\ g.Hour = h
            THEN Num((CHOOSE g \in heatmap_data : g.DayOfWeek = d /\ g.Hour = h).Total)
            ELSE NaNCell
    IN [index   |-> ordem_dias,
        columns |-> columns,
        z       |-> [i \in 1..Len(ordem_dias) |->
                        [j \in 1..Len(columns) |-> cell(ordem_dias[i], columns[j])]]]

\* Series.sort_values(ascending): every order of the rows that is sorted by Total;
\* the default sort is not stable, so rows of equal Total come out in any order
sort_values(series, ascending) ==
    {s \in [1..Cardinality(series) -> series] :
        /\ \A i, j \in 1..Cardinality(series) : i # j => s[i] # s[j]
        /\ \A i, j \in 1..Cardinality(series) :
              i < j => IF ascending THEN s[i].Total <= s[j].Total
                                    ELSE s[i].Total >= s[j].Total}

\* Series.head(n) and Series.tail(n), n >= 0
head(s, n) == SubSeq(s, 1, Min(n, Len(s)))
tail(s, n) == SubSeq(s, Len(s) - Min(n, Len(s)) + 1, Len(s))

\* criar_grafico_top_produtos with head in place of tail
criar_grafico_top_produtos_head(rows, top_n) ==
    {head(s, top_n) : s \in sort_values(groupby_sum(rows, "Description"), TRUE)}

\* groupby("Description").sum().sort_values(ascending=True).tail(top_n):
\* the series the function may build
criar_grafico_top_produtos(rows, top_n) ==
    {tail(s, top_n) : s \in sort_values(groupby_sum(rows, "Description"), TRUE)}

\* groupby("Country").sum().sort_values(ascending=False).head(top_n)
\* .sort_values(ascending=True): the series the function may build
criar_grafico_vendas_pais(rows, top_n) ==
    UNION {sort_values(Range(head(s, top_n)), TRUE) :
              s \in sort_values(groupby_sum(rows, "Country"), FALSE)}

\* cutoffs of the two histograms
corte_total == 1000
corte_quantidade == 50

\* df_filtrado[df_filtrado["Total"] <= 1000] and
\* df_filtrado[df_filtrado["Quantity"] <= 50], the data of px.histogram
histogramas(rows) ==
    [Total    |-> Column(SelectSeq(rows, LAMBDA r : r.Total <= corte_total), "Total"),
     Quantity |-> Column(SelectSeq(rows, LAMBDA r : r.Quantity <= corte_quantidade),
                         "Quantity")]

\* df_filtrado.to_csv(index=False): the header and one line per record
colunas == <<"InvoiceNo", "StockCode", "Description", "Quantity", "InvoiceDate",
             "UnitPrice", "CustomerID", "Country", "Total", "Hour", "DayOfWeek", "Date">>

to_csv(rows) ==
    [header |-> colunas,
     lines  |-> [i \in 1..Len(rows) |-> [c \in 1..Len(colunas) |-> rows[i][colunas[c]]]]]

----------------------------------------------------------------------------
(* Bounds and input domains *)

\* longest sheet of a run of the whole script
MaxRows == 2
\* longest sheet of a run that exercises the cleaning
MaxRawRows == 2
\* longest view handed to an aggregation on its own
MaxViewRows == 3
\* largest top_n handed to a Top-N aggregation on its own
MaxTopN == 3
\* longest sheet of a session that runs the script again
MaxCacheRows == 2
\* runs of the script in a session
MaxPasses == 2

SeqsUpTo(S, n) == UNION {[1..k -> S] : k \in 0..n}

RawRow(inv, desc, q, stamp, price, cust, country) ==
    [InvoiceNo |-> inv, StockCode |-> "85123A", Description |-> desc, Quantity |-> q,
     InvoiceDate |-> stamp, UnitPrice |-> price, CustomerID |-> cust,
     Country |-> country]

\* rows for the filter: every product with every country, every date with
\* every quantity, a second unit price, and one row whose date is no date
FilterRows ==
    {RawRow("536365", d, 1, Stamp(1, 9), 3, NumId(17850), c) :
        d \in {"LAMP", "MUG"}, c \in {"France", "United Kingdom"}}
    \cup {RawRow("536365", "MUG", q, Stamp(day, 9), 3, NumId(17850), "France") :
        q \in {1, 2}, day \in {1, 2}}
    \cup {RawRow("536365", "MUG", 1, Stamp(1, 9), 6, NumId(17850), "France"),
          RawRow("536365", "MUG", 1, BadStamp, 3, NumId(17850), "France")}

\* rows for the cleaning: every field it reads, clean and not
LoadRows ==
    {RawRow("536365", d, qp[1], stamp, qp[2], cust, "France") :
        d \in {NaN, "MUG"}, qp \in {<<2, 3>>, <<0, 3>>, <<-1, 3>>, <<2, 0>>},
        stamp \in {Stamp(1, 9), BadStamp}, cust \in {NullId, NumId(17850), TextId}}

\* rows for the cache: two clean lines, one dropna removes, one whose date
\* does not parse
CacheRows ==
    {RawRow("536365", "MUG", 2, Stamp(1, 9), 3, NumId(17850), "France"),
     RawRow("536366", "LAMP", 1, Stamp(2, 9), 3, NumId(17850), "France"),
     RawRow("536367", NaN, 1, Stamp(1, 9), 3, NumId(17850), "France"),
     RawRow("536365", "MUG", 2, BadStamp, 3, NumId(17850), "France")}

\* records for criar_metricas_kpi: two invoices, line totals 5, 10 and 20
KpiRows ==
    {features(RawRow(inv, "MUG", q, Stamp(1, 9), 5, NumId(17850), "France")) :
        inv \in {"536365", "536366"}, q \in {1, 2, 4}}

\* records for the weekday charts: two Mondays and a Sunday, at the first, a
\* middle and the last hour
WeekRows ==
    {features(RawRow("536365", "MUG", 1, Stamp(day, h), 5, NumId(17850), "France")) :
        day \in {0, 6, 7}, h \in {0, 9, 23}}

\* records for the Top-N charts: three products, three countries, two line totals
TopRows ==
    {features(RawRow("536365", d, q, Stamp(1, 9), 5, NumId(17850), "France")) :
        d \in {"CUP", "LAMP", "MUG"}, q \in {1, 2}}
    \cup {features(RawRow("536365", "MUG", q, Stamp(1, 9), 5, NumId(17850), c)) :
        c \in {"France", "Germany", "United Kingdom"}, q \in {1, 2}}

\* the views an aggregation is called on by itself, the empty view among them
Views ==
    SeqsUpTo(KpiRows, MaxViewRows) \cup SeqsUpTo(WeekRows, MaxViewRows)
    \cup SeqsUpTo(TopRows, MaxViewRows)

Sources(Rows, n) ==
    {[exists |-> FALSE, rows |-> <<>>]}
    \cup {[exists |-> TRUE, rows |-> s] : s \in SeqsUpTo(Rows, n)}

\* the values the sidebar widgets hand to the script: two dates between the
\* store's first and last, countries and products among the store's, the
\* checkbox, and a pair for each range.  The filter is evaluated on whatever
\* pairs it is handed, so Valores and Quantidades may hold inverted pairs.
Filtros(rows, Valores, Quantidades) ==
    {[data_inicio |-> di, data_fim |-> dfim, paises_selecionados |-> ps,
      filtrar_produtos |-> pr[1], escolha |-> pr[2],
      produtos_selecionados |-> produtos_selecionados(rows, pr[1], pr[2]),
      range_valores |-> rv, range_quantidade |-> rq] :
        di \in data_min(rows)..data_max(rows),
        dfim \in data_min(rows)..data_max(rows),
        ps \in SUBSET todos_paises(rows),
        pr \in {<<FALSE, {}>>} \cup {<<TRUE, e>> : e \in SUBSET produtos_unicos(rows)},
        rv \in Valores, rq \in Quantidades}

\* every range wide, narrow and inverted
WideFiltros(rows) ==
    Filtros(rows, {<<3, 6>>, <<6, 6>>, <<6, 3>>}, {<<1, 2>>, <<1, 1>>, <<2, 1>>})

\* the two ranges left at the sliders' default values
NarrowFiltros(rows) ==
    Filtros(rows, {<<valor_min(rows), valor_default>>},
            {<<quantidade_min(rows), quantidade_default>>})

\* the range of the two top-N sliders
top_n_min == 5
top_n_max == 20

----------------------------------------------------------------------------
(* st.cache_data around carregar_dados *)

\* carregar_dados without the decorator: every lookup is a miss
read_result_miss(entry) == Unbound

\* the lookup of the entry for the path: the stored value, or a miss
read_result(entry) == entry

\* the entry after the value the body returned was stored
write_result(value) == Bound(value)

\* a hit hands back a copy of the stored value, with the same contents
cached_value(entry) == Val(entry)

\* nothing stored, the body never entered
Cold ==
    /\ cache = Unbound
    /\ body_runs = 0
    /\ builds = 0

\* the first run of the first session: the lookup missed, the run holds the
\* compute lock and is about to enter the body; no other session
ColdMiss ==
    /\ Cold
    /\ lock = "main"
    /\ passes = 1
    /\ pc_other = "absent"
    /\ df_other = Unbound

\* a function called outside a run of the script
NoServer ==
    /\ Cold
    /\ lock = "free"
    /\ passes = 0
    /\ pc_other = "absent"
    /\ df_other = Unbound

----------------------------------------------------------------------------
(* One run of the script *)

Start(Rows, n) ==
    /\ source \in Sources(Rows, n)
    /\ pc = "load"
    /\ df = Unbound
    /\ st_error = ""
    /\ st_warning = FALSE
    /\ filtros = Unbound
    /\ df_filtrado = Unbound
    /\ metricas = Unbound
    /\ vendas_dia = Unbound
    /\ heatmap_pivot = Unbound
    /\ top_produtos = Unbound
    /\ vendas_pais = Unbound
    /\ dist = Unbound
    /\ csv = Unbound
    /\ ColdMiss

\* df = carregar_dados(caminho_completo_ficheiro) returns the store
Load ==
    /\ pc = "load"
    /\ lock = "main"
    /\ carregar_dados(source).ok
    /\ df' = Bound(carregar_dados(source).rows)
    /\ pc' = "sidebar"
    /\ cache' = write_result(carregar_dados(source).rows)
    /\ lock' = "free"
    /\ body_runs' = body_runs + 1
    /\ builds' = builds + 1
    /\ UNCHANGED <<source, st_error, st_warning, filtros, df_filtrado, aggs,
                   passes, pc_other, df_other>>

\* carregar_dados ends in one of its except handlers: st.error, st.stop
LoadFails ==
    /\ pc = "load"
    /\ lock = "main"
    /\ ~carregar_dados(source).ok
    /\ st_error' = carregar_dados(source).error
    /\ pc' = "stopped"
    /\ lock' = "free"
    /\ body_runs' = body_runs + 1
    /\ UNCHANGED <<source, df, st_warning, filtros, df_filtrado, aggs,
                   cache, builds, passes, pc_other, df_other>>

\* the sidebar over an empty store: the minima it reads are NaT and nan, and at
\* the latest int(df["Quantity"].min()), int(nan), raises ValueError; the run
\* ends with the exception, before the filter
SidebarRaises ==
    /\ pc = "sidebar"
    /\ empty(Val(df))
    /\ pc' = "raised"
    /\ UNCHANGED <<server, source, df, st_error, st_warning, filtros, df_filtrado, aggs>>

\* the sidebar widgets return their values
Sidebar(choices) ==
    /\ pc = "sidebar"
    /\ ~empty(Val(df))
    /\ \E f \in choices : filtros' = Bound(f)
    /\ pc' = "filter"
    /\ UNCHANGED <<server, source, df, st_error, st_warning, df_filtrado, aggs>>

\* df_filtrado = df[...]
ApplyFilter ==
    /\ pc = "filter"
    /\ df_filtrado' = Bound(filtrar(Val(df), Val(filtros)))
    /\ pc' = "guard"
    /\ UNCHANGED <<server, source, df, st_error, st_warning, filtros, aggs>>

\* if df_filtrado.empty: st.warning, st.stop
EmptyGuard ==
    /\ pc = "guard"
    /\ empty(Val(df_filtrado))
    /\ st_warning' = TRUE
    /\ pc' = "stopped"
    /\ UNCHANGED <<server, source, df, st_error, filtros, df_filtrado, aggs>>

\* the page down to the heatmap: the KPIs and the two weekday charts
RenderMetricas ==
    /\ pc = "guard"
    /\ ~empty(Val(df_filtrado))
    /\ metricas' = Bound(criar_metricas_kpi(Val(df_filtrado)))
    /\ vendas_dia' = Bound(criar_grafico_dia_semana(Val(df_filtrado)))
    /\ heatmap_pivot' = Bound(criar_heatmap_vendas(Val(df_filtrado)))
    /\ pc' = "produtos"
    /\ UNCHANGED <<server, source, df, st_error, st_warning, filtros, df_filtrado,
                   top_produtos, vendas_pais, dist, csv>>

\* the slider top_n_produtos and criar_grafico_top_produtos
RenderTopProdutos ==
    /\ pc = "produtos"
    /\ \E top_n_produtos \in top_n_min..top_n_max :
         \E s \in criar_grafico_top_produtos(Val(df_filtrado), top_n_produtos) :
            top_produtos' = Bound(s)
    /\ pc' = "paises"
    /\ UNCHANGED <<server, source, df, st_error, st_warning, filtros, df_filtrado,
                   metricas, vendas_dia, heatmap_pivot, vendas_pais, dist, csv>>

\* the slider top_n_paises and criar_grafico_vendas_pais, then the rest of the
\* page: the two histograms and the export
RenderTopPaises ==
    /\ pc = "paises"
    /\ \E top_n_paises \in top_n_min..top_n_max :
         \E s \in criar_grafico_vendas_pais(Val(df_filtrado), top_n_paises) :
            vendas_pais' = Bound(s)
    /\ dist' = Bound(histogramas(Val(df_filtrado)))
    /\ csv' = Bound(to_csv(Val(df_filtrado)))
    /\ pc' = "done"
    /\ UNCHANGED <<server, source, df, st_error, st_warning, filtros, df_filtrado,
                   metricas, vendas_dia, heatmap_pivot, top_produtos>>

Init == Start(FilterRows, MaxRows)

Next ==
    \/ Load
    \/ LoadFails
    \/ SidebarRaises
    \/ Sidebar(WideFiltros(Val(df)))
    \/ ApplyFilter
    \/ EmptyGuard
    \/ RenderMetricas
    \/ RenderTopProdutos
    \/ RenderTopPaises

\* runs of the script over sheets that exercise the filter
Spec == Init /\ [][Next]_vars

InitLoad == Start(LoadRows, MaxRawRows)

NextLoad ==
    \/ Load
    \/ LoadFails
    \/ SidebarRaises
    \/ Sidebar(NarrowFiltros(Val(df)))
    \/ ApplyFilter
    \/ EmptyGuard
    \/ RenderMetricas
    \/ RenderTopProdutos
    \/ RenderTopPaises

\* runs of the script over sheets that exercise the cleaning
SpecLoad == InitLoad /\ [][NextLoad]_vars

----------------------------------------------------------------------------
(* Runs of the script in a session, and a second session loading *)

InitCache ==
    /\ source \in Sources(CacheRows, MaxCacheRows)
    /\ pc = "lookup"
    /\ df = Unbound
    /\ st_error = ""
    /\ st_warning = FALSE
    /\ filtros = Unbound
    /\ df_filtrado = Unbound
    /\ metricas = Unbound
    /\ vendas_dia = Unbound
    /\ heatmap_pivot = Unbound
    /\ top_produtos = Unbound
    /\ vendas_pais = Unbound
    /\ dist = Unbound
    /\ csv = Unbound
    /\ Cold
    /\ lock = "free"
    /\ passes = 1
    /\ pc_other = "lookup"
    /\ df_other = Unbound

\* the call finds the entry: the stored store comes back, the body is skipped
LookupHit ==
    /\ pc = "lookup"
    /\ IsBound(read_result(cache))
    /\ df' = Bound(cached_value(read_result(cache)))
    /\ pc' = "sidebar"
    /\ UNCHANGED <<server, source, st_error, st_warning, filtros, df_filtrado, aggs>>

\* the call finds no entry and goes for the compute lock
LookupMiss ==
    /\ pc = "lookup"
    /\ ~IsBound(read_result(cache))
    /\ pc' = "wait"
    /\ UNCHANGED <<server, source, df, st_error, st_warning, filtros, df_filtrado, aggs>>

\* with the lock, the second lookup finds the entry another call stored
LockedHit ==
    /\ pc = "wait"
    /\ lock = "free"
    /\ IsBound(read_result(cache))
    /\ df' = Bound(cached_value(read_result(cache)))
    /\ pc' = "sidebar"
    /\ UNCHANGED <<server, source, st_error, st_warning, filtros, df_filtrado, aggs>>

\* with the lock, the second lookup misses too: the call enters the body
LockedMiss ==
    /\ pc = "wait"
    /\ lock = "free"
    /\ ~IsBound(read_result(cache))
    /\ lock' = "main"
    /\ pc' = "load"
    /\ UNCHANGED <<source, df, st_error, st_warning, filtros, df_filtrado, aggs,
                   cache, body_runs, builds, passes, pc_other, df_other>>

\* the run is over and the script runs again from the top
Rerun ==
    /\ pc \in {"done", "stopped", "raised"}
    /\ passes < MaxPasses
    /\ passes' = passes + 1
    /\ pc' = "lookup"
    /\ df' = Unbound
    /\ st_error' = ""
    /\ st_warning' = FALSE
    /\ filtros' = Unbound
    /\ df_filtrado' = Unbound
    /\ metricas' = Unbound
    /\ vendas_dia' = Unbound
    /\ heatmap_pivot' = Unbound
    /\ top_produtos' = Unbound
    /\ vendas_pais' = Unbound
    /\ dist' = Unbound
    /\ csv' = Unbound
    /\ UNCHANGED <<source, cache, lock, body_runs, builds, pc_other, df_other>>

session == <<pc, df, st_error, st_warning, filtros, df_filtrado, aggs>>

OtherLookupHit ==
    /\ pc_other = "lookup"
    /\ IsBound(read_result(cache))
    /\ df_other' = Bound(cached_value(read_result(cache)))
    /\ pc_other' = "returned"
    /\ UNCHANGED <<source, session, cache, lock, body_runs, builds, passes>>

OtherLookupMiss ==
    /\ pc_other = "lookup"
    /\ ~IsBound(read_result(cache))
    /\ pc_other' = "wait"
    /\ UNCHANGED <<source, session, cache, lock, body_runs, builds, passes, df_other>>

OtherLockedHit ==
    /\ pc_other = "wait"
    /\ lock = "free"
    /\ IsBound(read_result(cache))
    /\ df_other' = Bound(cached_value(read_result(cache)))
    /\ pc_other' = "returned"
    /\ UNCHANGED <<source, session, cache, lock, body_runs, builds, passes>>

OtherLockedMiss ==
    /\ pc_other = "wait"
    /\ lock = "free"
    /\ ~IsBound(read_result(cache))
    /\ lock' = "other"
    /\ pc_other' = "load"
    /\ UNCHANGED <<source, session, cache, body_runs, builds, passes, df_other>>

\* the second session's call runs the body, which returns the store
OtherLoad ==
    /\ pc_other = "load"
    /\ lock = "other"
    /\ carregar_dados(source).ok
    /\ df_other' = Bound(carregar_dados(source).rows)
    /\ pc_other' = "returned"
    /\ cache' = write_result(carregar_dados(source).rows)
    /\ lock' = "free"
    /\ body_runs' = body_runs + 1
    /\ builds' = builds + 1
    /\ UNCHANGED <<source, session, passes>>

\* the second session's call runs the body, which ends in st.error, st.stop
OtherLoadFails ==
    /\ pc_other = "load"
    /\ lock = "other"
    /\ ~carregar_dados(source).ok
    /\ pc_other' = "stopped"
    /\ lock' = "free"
    /\ body_runs' = body_runs + 1
    /\ UNCHANGED <<source, session, cache, builds, passes, df_other>>

NextCache ==
    \/ LookupHit
    \/ LookupMiss
    \/ LockedHit
    \/ LockedMiss
    \/ Load
    \/ LoadFails
    \/ SidebarRaises
    \/ Sidebar(NarrowFiltros(Val(df)))
    \/ ApplyFilter
    \/ EmptyGuard
    \/ RenderMetricas
    \/ RenderTopProdutos
    \/ RenderTopPaises
    \/ Rerun
    \/ OtherLookupHit
    \/ OtherLookupMiss
    \/ OtherLockedHit
    \/ OtherLockedMiss
    \/ OtherLoad
    \/ OtherLoadFails

\* runs of the script one after another, beside a second session's load
SpecCache == InitCache /\ [][NextCache]_vars

----------------------------------------------------------------------------
(* An aggregation called by itself on a view *)

InitAgg ==
    /\ source = [exists |-> TRUE, rows |-> <<>>]
    /\ pc = "call"
    /\ df = Unbound
    /\ st_error = ""
    /\ st_warning = FALSE
    /\ filtros = Unbound
    /\ df_filtrado \in {Bound(v) : v \in Views}
    /\ metricas = Unbound
    /\ vendas_dia = Unbound
    /\ heatmap_pivot = Unbound
    /\ top_produtos = Unbound
    /\ vendas_pais = Unbound
    /\ dist = Unbound
    /\ csv = Unbound
    /\ NoServer

CallMetricasKpi ==
    /\ pc = "call"
    /\ metricas' = Bound(criar_metricas_kpi(Val(df_filtrado)))
    /\ pc' = "returned"
    /\ UNCHANGED <<server, source, df, st_error, st_warning, filtros, df_filtrado,
                   vendas_dia, heatmap_pivot, top_produtos, vendas_pais, dist, csv>>

CallDiaSemana ==
    /\ pc = "call"
    /\ vendas_dia' = Bound(criar_grafico_dia_semana(Val(df_filtrado)))
    /\ pc' = "returned"
    /\ UNCHANGED <<server, source, df, st_error, st_warning, filtros, df_filtrado,
                   metricas, heatmap_pivot, top_produtos, vendas_pais, dist, csv>>

CallHeatmap ==
    /\ pc = "call"
    /\ heatmap_pivot' = Bound(criar_heatmap_vendas(Val(df_filtrado)))
    /\ pc' = "returned"
    /\ UNCHANGED <<server, source, df, st_error, st_warning, filtros, df_filtrado,
                   metricas, vendas_dia, top_produtos, vendas_pais, dist, csv>>

CallTopProdutos(top_n) ==
    /\ pc = "call"
    /\ \E s \in criar_grafico_top_produtos(Val(df_filtrado), top_n) :
          top_produtos' = Bound(s)
    /\ pc' = "returned"
    /\ UNCHANGED <<server, source, df, st_error, st_warning, filtros, df_filtrado,
                   metricas, vendas_dia, heatmap_pivot, vendas_pais, dist, csv>>

CallVendasPais(top_n) ==
    /\ pc = "call"
    /\ \E s \in criar_grafico_vendas_pais(Val(df_filtrado), top_n) :
          vendas_pais' = Bound(s)
    /\ pc' = "returned"
    /\ UNCHANGED <<server, source, df, st_error, st_warning, filtros, df_filtrado,
                   metricas, vendas_dia, heatmap_pivot, top_produtos, dist, csv>>

CallHistogramas ==
    /\ pc = "call"
    /\ dist' = Bound(histogramas(Val(df_filtrado)))
    /\ pc' = "returned"
    /\ UNCHANGED <<server, source, df, st_error, st_warning, filtros, df_filtrado,
                   metricas, vendas_dia, heatmap_pivot, top_produtos, vendas_pais, csv>>

NextAgg ==
    \/ CallMetricasKpi
    \/ CallDiaSemana
    \/ CallHeatmap
    \/ \E top_n \in 1..MaxTopN : CallTopProdutos(top_n)
    \/ \E top_n \in 1..MaxTopN : CallVendasPais(top_n)
    \/ CallHistogramas

\* every aggregation applied to every view
SpecAgg == InitAgg /\ [][NextAgg]_vars

----------------------------------------------------------------------------
(* Properties *)

Store == Val(df)
View == Val(df_filtrado)
F == Val(filtros)

InDates(r, f) == f.data_inicio <= r.Date /\ r.Date <= f.data_fim
InCountries(r, f) == r.Country \in f.paises_selecionados
InProducts(r, f) == r.Description \in f.produtos_selecionados
InTotals(r, f) == f.range_valores[1] <= r.Total /\ r.Total <= f.range_valores[2]
InQuantities(r, f) ==
    f.range_quantidade[1] <= r.Quantity /\ r.Quantity <= f.range_quantidade[2]

Passes(r, f) ==
    InDates(r, f) /\ InCountries(r, f) /\ InProducts(r, f) /\ InTotals(r, f)
    /\ InQuantities(r, f)

\* C1: the filtered view is exactly the store records that pass the five
\* predicates, all bounds inclusive: every record of the view is a record of the
\* store and passes each predicate checked on its own, every store record that
\* passes all of them is in the view, and as many times as it is in the store.
C1_FilteredViewIsExact ==
    IsBound(df_filtrado) =>
        /\ \A i \in 1..Len(View) :
              /\ View[i] \in Range(Store)
              /\ InDates(View[i], F)
              /\ InCountries(View[i], F)
              /\ InProducts(View[i], F)
              /\ InTotals(View[i], F)
              /\ InQuantities(View[i], F)
        /\ \A j \in 1..Len(Store) : Passes(Store[j], F) => Store[j] \in Range(View)
        /\ Len(View) = Cardinality({j \in 1..Len(Store) : Passes(Store[j], F)})

\* C1 witness: a filter that keeps one record of the store and drops another
C1_Witness ==
    /\ IsBound(df_filtrado)
    /\ Len(View) = 1
    /\ Len(Store) = 2
    /\ View[1].Total = F.range_valores[2]

Raw == read_excel(source)

Clean(r) ==
    /\ r.CustomerID.kind # "null"
    /\ r.Description # NaN
    /\ r.Quantity > 0
    /\ r.UnitPrice > 0

\* the store record s is the raw row r with its customer identifier as an integer
FromRaw(s, r) ==
    /\ s.InvoiceNo = r.InvoiceNo
    /\ s.StockCode = r.StockCode
    /\ s.Description = r.Description
    /\ s.Quantity = r.Quantity
    /\ s.InvoiceDate = r.InvoiceDate
    /\ s.UnitPrice = r.UnitPrice
    /\ r.CustomerID.kind = "num"
    /\ s.CustomerID = r.CustomerID.val
    /\ s.Country = r.Country

\* C2: every record of the store carregar_dados returns has a customer
\* identifier and a description, quantity > 0, unit price > 0 and a line total
\* equal to its own quantity times its own unit price; it is a raw row that
\* meets the four conditions, and every raw row that meets them is in the store.
\* The raw table is the one read_excel returns.
C2_StoreIsTheCleanRows ==
    IsBound(df) =>
        /\ \A j \in 1..Len(Store) :
              /\ Store[j].Description # NaN
              /\ Store[j].Quantity > 0
              /\ Store[j].UnitPrice > 0
              /\ Store[j].Total = Store[j].Quantity * Store[j].UnitPrice
              /\ \E i \in 1..Len(Raw) : Clean(Raw[i]) /\ FromRaw(Store[j], Raw[i])
        /\ \A i \in 1..Len(Raw) :
              Clean(Raw[i]) => \E j \in 1..Len(Store) : FromRaw(Store[j], Raw[i])
        /\ Len(Store) = Cardinality({i \in 1..Len(Raw) : Clean(Raw[i])})

\* C2 witness: a load that keeps one raw row and drops a row of quantity zero
C2_Witness ==
    /\ IsBound(df)
    /\ Len(Store) = 1
    /\ Len(Raw) = 2
    /\ \E i \in 1..2 : Raw[i].Quantity = 0 /\ Raw[i].UnitPrice > 0
                       /\ Raw[i].Description # NaN /\ Raw[i].CustomerID.kind = "num"

\* the sum of the line totals of the records of rows whose column col holds k
GroupTotal(rows, col, k) ==
    SumSeq([i \in 1..Len(rows) |-> IF rows[i][col] = k THEN rows[i].Total ELSE 0])

Keys(rows, col) == {rows[i][col] : i \in 1..Len(rows)}

\* the view of the worked example: invoice A with line totals 10 and 20,
\* invoice B with line total 5
IsExampleView(rows) ==
    /\ Len(rows) = 3
    /\ {<<rows[i].InvoiceNo, rows[i].Total>> : i \in 1..Len(rows)}
          = {<<"536365", 10>>, <<"536365", 20>>, <<"536366", 5>>}

\* C3: over a non-empty view ticket_medio is the sum of all line totals divided
\* by the number of distinct invoices; on the worked example it is 17.5 and not
\* the mean of the line totals, 35/3.
C3_TicketMedioPerInvoice ==
    (IsBound(metricas) /\ Len(View) > 0) =>
        LET tm == Val(metricas).ticket_medio
        IN /\ tm.den # 0
           /\ tm.num * Cardinality(Keys(View, "InvoiceNo"))
                 = SumSeq(Column(View, "Total")) * tm.den
           /\ IsExampleView(View) =>
                 (tm.num * 10 = 175 * tm.den /\ tm.num * 3 # 35 * tm.den)

\* C3 witness: the KPIs of the worked example
C3_Witness ==
    /\ IsBound(metricas)
    /\ IsExampleView(View)
    /\ Val(metricas).total_faturas = 2

\* C4: the weekday table has exactly 7 rows, Monday to Sunday in that order,
\* each holding the sum of the line totals of its weekday, and zero, not a
\* missing value, for a weekday without records.
C4_SevenRowsZeroFilled ==
    IsBound(vendas_dia) =>
        /\ Len(Val(vendas_dia)) = 7
        /\ \A i \in 1..7 :
              /\ Val(vendas_dia)[i].key = ordem_dias[i]
              /\ ~Val(vendas_dia)[i].Total.nan
              /\ Val(vendas_dia)[i].Total.v = GroupTotal(View, "DayOfWeek", ordem_dias[i])

\* C5: the heatmap table is a grid of the 7 weekdays by the 24 hours, each cell
\* holding the sum of the line totals of its weekday and hour, and zero, not a
\* missing value, where no record falls.
C5_CompleteGridZeroFilled ==
    IsBound(heatmap_pivot) =>
        LET h == Val(heatmap_pivot)
        IN /\ h.index = ordem_dias
           /\ h.columns = [j \in 1..24 |-> j - 1]
           /\ Len(h.z) = 7
           /\ \A i \in 1..Len(h.z) :
                 /\ Len(h.z[i]) = 24
                 /\ \A j \in 1..Len(h.z[i]) :
                       /\ ~h.z[i][j].nan
                       /\ h.z[i][j].v =
                            SumSeq([k \in 1..Len(View) |->
                                IF View[k].DayOfWeek = ordem_dias[i]
                                   /\ View[k].Hour = h.columns[j]
                                THEN View[k].Total ELSE 0])

\* the groups of rows by col, each with the sum of its line totals
Groups(rows, col) ==
    {[key |-> k, Total |-> GroupTotal(rows, col, k)] : k \in Keys(rows, col)}

\* res holds min(n, number of groups) groups, each once and with its sum, no
\* group left out has a larger sum than a group of res, and res is in order
IsTopN(res, groups, n, ascending) ==
    /\ Len(res) = Min(n, Cardinality(groups))
    /\ \A i \in 1..Len(res) : res[i] \in groups
    /\ \A i, j \in 1..Len(res) : i # j => res[i].key # res[j].key
    /\ \A g \in groups \ Range(res) : \A i \in 1..Len(res) : g.Total <= res[i].Total
    /\ \A i, j \in 1..Len(res) :
          i < j => IF ascending THEN res[i].Total <= res[j].Total
                                ELSE res[i].Total >= res[j].Total

OtherFour(r, f) ==
    InDates(r, f) /\ InCountries(r, f) /\ InTotals(r, f) /\ InQuantities(r, f)

\* C8: with the checkbox off the product predicate matches every record, so the
\* view is the store records that pass the other four predicates; with it on
\* and a selection S the view is those of them whose description is in S, and
\* with it on and S empty the view is empty.
C8_ProductFilterStates ==
    IsBound(df_filtrado) =>
        /\ ~F.filtrar_produtos =>
              View = SelectSeq(Store, LAMBDA r : OtherFour(r, F))
        /\ F.filtrar_produtos =>
              View = SelectSeq(Store,
                               LAMBDA r : OtherFour(r, F) /\ r.Description \in F.escolha)
        /\ (F.filtrar_produtos /\ F.escolha = {}) => View = <<>>

\* C8 witness: the checkbox on, nothing selected, and records that pass the
\* other four predicates
C8_Witness ==
    /\ IsBound(df_filtrado)
    /\ F.filtrar_produtos
    /\ F.escolha = {}
    /\ \E j \in 1..Len(Store) : OtherFour(Store[j], F)

\* the load of this source fails: no file, or a row left by the cleaning whose
\* date is no date or whose customer identifier is no number
LoadMustFail ==
    \/ ~source.exists
    \/ \E i \in 1..Len(Raw) :
          /\ Clean(Raw[i])
          /\ (~Raw[i].InvoiceDate.ok \/ Raw[i].CustomerID.kind # "num")

NothingComputed ==
    /\ filtros = Unbound
    /\ df_filtrado = Unbound
    /\ metricas = Unbound
    /\ vendas_dia = Unbound
    /\ heatmap_pivot = Unbound
    /\ top_produtos = Unbound
    /\ vendas_pais = Unbound
    /\ dist = Unbound
    /\ csv = Unbound

\* C9: a failing load is terminal: an error message is shown and the run is
\* halted, no store is returned, whole or partial, and no filter, aggregation
\* or export runs in that pass.
C9_LoadFailureIsTerminal ==
    (LoadMustFail /\ pc # "load") =>
        /\ pc = "stopped"
        /\ st_error # ""
        /\ df = Unbound
        /\ NothingComputed
        /\ ~st_warning

\* C9 witness: a halted run over a sheet with a clean row and a row whose date
\* is no date
C9_Witness ==
    /\ pc = "stopped"
    /\ source.exists
    /\ Len(Raw) = 2
    /\ Clean(Raw[1]) /\ Raw[1].InvoiceDate.ok /\ Raw[1].CustomerID.kind = "num"
    /\ Clean(Raw[2]) /\ ~Raw[2].InvoiceDate.ok /\ Raw[2].CustomerID.kind = "num"

Inverted(f) ==
    \/ f.data_inicio > f.data_fim
    \/ f.range_valores[1] > f.range_valores[2]
    \/ f.range_quantidade[1] > f.range_quantidade[2]

\* C10: with an inverted range the filter raises nothing, the view is empty and
\* the pass ends in the no-data warning and the halt, with no KPI, chart,
\* histogram or export computed.
C10_InvertedRangeEndsInNoData ==
    (IsBound(filtros) /\ Inverted(F) /\ pc # "filter") =>
        /\ pc \in {"guard", "stopped"}
        /\ IsBound(df_filtrado)
        /\ View = <<>>
        /\ pc = "stopped" => st_warning
        /\ st_error = ""
        /\ metricas = Unbound
        /\ vendas_dia = Unbound
        /\ heatmap_pivot = Unbound
        /\ top_produtos = Unbound
        /\ vendas_pais = Unbound
        /\ dist = Unbound
        /\ csv = Unbound

\* C10 witness: a pass halted on the warning after a start date later than the
\* end date, every other predicate passing some record
C10_Witness ==
    /\ pc = "stopped"
    /\ st_warning
    /\ F.data_inicio > F.data_fim
    /\ \E j \in 1..Len(Store) :
          InCountries(Store[j], F) /\ InProducts(Store[j], F)
          /\ InTotals(Store[j], F) /\ InQuantities(Store[j], F)

----------------------------------------------------------------------------
(* The cache of carregar_dados *)

\* what the body of carregar_dados makes of the source
Built == carregar_dados(source)

\* every store a call handed out is the cached one, and the cached one is
\* what the body makes of the source
StoresAreTheCachedBuild ==
    /\ IsBound(cache) => Val(cache) = Built.rows
    /\ IsBound(df) => IsBound(cache) /\ Val(df) = Val(cache)
    /\ IsBound(df_other) => IsBound(cache) /\ Val(df_other) = Val(cache)

\* both sessions are through with their calls
CallsOver ==
    /\ pc \in {"done", "stopped", "raised"}
    /\ pc_other \in {"returned", "stopped"}

\* C11, as stated: over any sequence of runs of the script and any
\* interleaving of concurrent first loads of the same source, the body of
\* carregar_dados runs at most once, every call returns the store with the
\* same contents, and no step of a run changes the cached store.
C11_BodyRunsAtMostOnce ==
    /\ body_runs <= 1
    /\ StoresAreTheCachedBuild

\* C11, amended: over any sequence of runs of the script and any interleaving
\* of concurrent first loads of the same source, the body of carregar_dados
\* returns a store at most once.  When the source loads, the body runs at most
\* once, every call returns a store with the contents of that one build, and
\* no step of a run changes the cached store.  When the load fails nothing is
\* cached, and every call runs the body again and fails again.
C11_StoreBuiltAtMostOnce ==
    /\ builds <= 1
    /\ StoresAreTheCachedBuild
    /\ Built.ok => body_runs <= 1
    /\ IsBound(cache) => builds = 1
    /\ ~Built.ok => cache = Unbound /\ builds = 0
    /\ ~Built.ok /\ CallsOver => body_runs = passes + 1

\* the second run of the script got from the cache the store a single run of
\* the body built, the second session got it too, and the run rendered it
C11_Witness ==
    /\ passes = 2
    /\ pc = "done"
    /\ pc_other = "returned"
    /\ body_runs = 1
    /\ builds = 1
    /\ ~empty(Val(df))
    /\ Val(df_other) = Val(df)
====
